---- MODULE Spec2Model ----
(***************************************************************************)
(* Model of the booking dialog (src/src/components/BookingDialog.tsx) and  *)
(* of the event-detail hook useEvent (src/unnamed/part_001).               *)
(*                                                                         *)
(* Text values are tuples of one-character strings, so that lengths and    *)
(* the e-mail syntax are computed; messages are tuples of text fragments.  *)
(***************************************************************************)
EXTENDS Integers, Sequences, FiniteSets, TLC

\* ---------------------------------------------------------------- bounds
MaxRequests == 2     \* create-booking requests issued in one behaviour
MaxSessions == 2     \* closed-to-open transitions in one behaviour
MaxFetches  == 2     \* GET /events/{id} calls in one behaviour

\* ------------------------------------------------------- program constants
NaN             == -1   \* valueAsNumber of an empty / non-numeric entry
DefaultQuantity == 1    \* defaultValues / reset({ quantity: 1 })
MinName         == 2    \* z.string().min(2)
MinMobile       == 10   \* z.string().min(10)
MinQuantity     == 1    \* z.number().min(1)

IsNaN(x) == x = NaN

\* ------------------------------------------------------------- test data
\* The event prop: null, or an Event record of the API.
NoEvent == [id |-> 0, availableSeats |-> 0, price |-> 0]
Events  == { [id |-> 1, availableSeats |-> 1, price |-> 299],
             [id |-> 2, availableSeats |-> 0, price |-> 199] }

Empty == << >>
Names   == { <<"A">>, <<"A", "l">> }
Emails  == { <<"n","o","t","-","a","n","-","e","m","a","i","l">>,
             <<"a","@","b",".","c","o","m">> }
Mobiles == { <<"1","2","3","4","5","6","7","8","9","0">> }
Quantities == {NaN} \cup (0..(DefaultQuantity + 1))

\* What a rejected create-booking promise carries: error?.message
Failures == { [message |-> <<"Payment declined">>], [message |-> Empty] }

\* --------------------------------------------------------- bookingSchema
Letter == {"a","b","c","d","e","f","g","h","i","j","k","l","m",
           "n","o","p","q","r","s","t","u","v","w","x","y","z"}
Digit  == {"0","1","2","3","4","5","6","7","8","9"}
Alnum  == Letter \cup Digit

\* z.string().email(): the address syntax
\*   ^(?!\.)(?!.*\.\.)([A-Z0-9_'+\-\.]*)[A-Z0-9_+-]@([A-Z0-9][A-Z0-9\-]*\.)+[A-Z]{2,}$
EmailValid(s) ==
    /\ Len(s) > 0
    /\ s[1] # "."
    /\ \A i \in 1..(Len(s) - 1) : ~(s[i] = "." /\ s[i + 1] = ".")
    /\ \E k \in 1..Len(s) :
         /\ s[k] = "@"
         /\ LET local  == SubSeq(s, 1, k - 1)
                domain == SubSeq(s, k + 1, Len(s))
                dots   == {i \in 1..Len(domain) : domain[i] = "."}
            IN  /\ Len(local) >= 1
                /\ \A i \in 1..Len(local) :
                       local[i] \in Alnum \cup {"_", "'", "+", "-", "."}
                /\ local[Len(local)] \in Alnum \cup {"_", "+", "-"}
                /\ dots # {}
                /\ LET lastDot == CHOOSE d \in dots : \A e \in dots : e <= d
                   IN  /\ Len(domain) - lastDot >= 2
                       /\ \A i \in (lastDot + 1)..Len(domain) : domain[i] \in Letter
                       /\ \A i \in 1..lastDot :
                            IF domain[i] = "."
                            THEN i > 1 /\ domain[i - 1] # "."
                            ELSE IF i = 1 \/ domain[i - 1] = "."
                                 THEN domain[i] \in Alnum
                                 ELSE domain[i] \in Alnum \cup {"-"}

NameValid(n)     == Len(n) >= MinName
MobileValid(m)   == Len(m) >= MinMobile
\* z.number() rejects NaN before .min(1) is looked at
QuantityValid(q) == ~IsNaN(q) /\ q >= MinQuantity

\* The schema with the mobile rule left out.
SchemaValidNoMobile(data) ==
    /\ NameValid(data.name)
    /\ EmailValid(data.email)
    /\ QuantityValid(data.quantity)

\* zodResolver(bookingSchema): handleSubmit calls onSubmit only when this holds
SchemaValid(data) ==
    /\ NameValid(data.name)
    /\ EmailValid(data.email)
    /\ MobileValid(data.mobile)
    /\ QuantityValid(data.quantity)

\* --------------------------------------------------------------- messages
SeatsMessage(a) ==
    <<"Only ", ToString(a), " seats available.", " Please reduce quantity.">>
FallbackMessage == <<"Booking failed. Please try again.">>
\* The catch block without the fallback.
FailureMessageNoFallback(err) == err.message

\* error?.message || "Booking failed. Please try again."
FailureMessage(err) == IF err.message # Empty THEN err.message ELSE FallbackMessage


\* ------------------------------------------------------------------ state
VARIABLES
    open,          \* prop open, owned by the parent
    event,         \* prop event (NoEvent is null)
    bookingStatus, \* useState: "idle" | "success" | "error"
    errorMessage,  \* useState("")
    form,          \* the useForm field values
    requests,      \* every createBooking.mutateAsync call, in order, with its outcome
                   \* and the calls its completion made (confetti, callbacks)
    timers,        \* requests whose setTimeout callback has not run yet
    view,          \* what the last render put on screen
    session,       \* number of closed-to-open transitions so far
    lastOp,        \* "submit" when the handler that ran last is handleSubmit
    hookId,        \* argument of the mounted useEvent hook
    cache,         \* the query cache: one query per key ['event', id]
    getCalls,      \* every apiClient.get call, in order
    hookOp         \* the hook operation that ran last

dialogVars == <<open, event, bookingStatus, errorMessage, form, requests, timers,
                view, session, lastOp>>
hookVars   == <<hookId, cache, getCalls, hookOp>>
vars       == <<open, event, bookingStatus, errorMessage, form, requests, timers,
                view, session, lastOp,
                hookId, cache, getCalls, hookOp>>

\* ---------------------------------------------------------- derived values
\* createBooking.isPending: the mutation observer follows the latest mutateAsync
IsPending(reqs) == Len(reqs) > 0 /\ reqs[Len(reqs)].state = "pending"

InFlight == {i \in 1..Len(requests) : requests[i].state = "pending"}

\* const quantity = watch("quantity") || 1
WatchedQuantity(q) == IF IsNaN(q) \/ q = 0 THEN 1 ELSE q

\* const totalAmount = event ? event.price * quantity : 0
TotalAmount(ev, q) == IF ev # NoEvent THEN ev.price * WatchedQuantity(q) ELSE 0

\* Number.prototype.toFixed(2) on the values that occur here
ToFixed2(x) == IF IsNaN(x) THEN "NaN" ELSE ToString(x) \o ".00"

\* The render: the disabled attributes and the Total Amount input
RenderView(ev, frm, reqs) ==
    [ pending        |-> IsPending(reqs),
      submitDisabled |-> IsPending(reqs) \/ ev.availableSeats = 0,
      totalText      |-> "$" \o ToFixed2(TotalAmount(ev, frm.quantity)) ]

\* The seat guard off by one.
ExceedsSeatsOffByOne(q, ev) == ~IsNaN(q) /\ q > ev.availableSeats + 1

\* data.quantity > event.availableSeats   (NaN compares false)
ExceedsSeats(q, ev) == ~IsNaN(q) /\ q > ev.availableSeats

\* reset({ quantity: 1 }): text inputs without a default read back as ""
ResetForm == [name |-> Empty, email |-> Empty, mobile |-> Empty,
              quantity |-> DefaultQuantity]

NewRequest(ev, data, s) ==
    [ eventId |-> ev.id, name |-> data.name, email |-> data.email,
      mobile |-> data.mobile, quantity |-> data.quantity,
      session |-> s, state |-> "pending", error |-> Empty, calls |-> << >> ]

\* ------------------------------------------------------------ useEvent data
NotCalled == "<not called>"      \* no component has called the hook yet
Undefined == "<undefined>"       \* the argument undefined
Ids == {Undefined, "", "1", "2"} \* id: string | undefined

\* !id
Falsy(id) == id \in {Undefined, ""}

EventIdRequired == "Event ID is required"
RequestFailed   == "Request failed"

\* A query that has not run: status pending, fetchStatus idle, no error
HookIdle == [status |-> "pending", fetchStatus |-> "idle", error |-> ""]

Init ==
    /\ open = FALSE
    /\ event = NoEvent
    /\ bookingStatus = "idle"
    /\ errorMessage = Empty
    /\ form = ResetForm
    /\ requests = << >>
    /\ timers = {}
    /\ view = RenderView(NoEvent, ResetForm, << >>)
    /\ session = 0
    /\ lastOp = "other"
    /\ hookId = NotCalled
    /\ cache = [id \in Ids |-> HookIdle]
    /\ getCalls = << >>
    /\ hookOp = "init"

\* ------------------------------------------------------- dialog operations
\* The parent selects an event and sets open; the effect on [open] then runs.
OpenDialog(e) ==
    /\ ~open
    /\ session < MaxSessions
    /\ open' = TRUE
    /\ event' = e
    /\ form' = ResetForm
    /\ bookingStatus' = "idle"
    /\ errorMessage' = Empty
    /\ view' = RenderView(e, ResetForm, requests)
    /\ session' = session + 1
    /\ lastOp' = "other"
    /\ UNCHANGED <<requests, timers>>

\* The Cancel button: disabled while the rendered pending flag is set.
CancelClick ==
    /\ open /\ event # NoEvent
    /\ ~view.pending
    /\ open' = FALSE
    /\ lastOp' = "other"
    /\ UNCHANGED <<event, bookingStatus, errorMessage, form, requests, timers,
                   view, session>>

\* <Dialog onOpenChange={onOpenChange}>: Escape, overlay click or the close
\* icon ask the parent to close; no pending check stands in the way.
DialogDismiss ==
    /\ open /\ event # NoEvent
    /\ open' = FALSE
    /\ lastOp' = "other"
    /\ UNCHANGED <<event, bookingStatus, errorMessage, form, requests, timers,
                   view, session>>

\* Typing into a field; the inputs are disabled while the rendered pending
\* flag is set.  An input event re-renders before the next event is handled.
EditField(f, v) ==
    /\ open /\ event # NoEvent
    /\ ~view.pending
    /\ form' = [form EXCEPT ![f] = v]
    /\ view' = RenderView(event, form', requests)
    /\ lastOp' = "other"
    /\ UNCHANGED <<open, event, bookingStatus, errorMessage, requests, timers,
                   session>>

SetName     == \E v \in Names   : EditField("name", v)
SetEmail    == \E v \in Emails  : EditField("email", v)
SetMobile   == \E v \in Mobiles : EditField("mobile", v)
SetQuantity == \E v \in Quantities : EditField("quantity", v)

\* handleSubmit(onSubmit), up to the await of mutateAsync.  The submit button
\* is disabled by the rendered attribute only; onSubmit itself does not look
\* at createBooking.isPending.  The pending state set by mutateAsync reaches
\* the screen with the next render (Render below).
Submit ==
    /\ open /\ event # NoEvent
    /\ ~view.submitDisabled
    /\ Len(requests) < MaxRequests
    /\ lastOp' = "submit"
    /\ IF ~SchemaValid(form)
       THEN UNCHANGED <<bookingStatus, errorMessage, requests>>
       ELSE IF ExceedsSeats(form.quantity, event)
            THEN /\ bookingStatus' = "error"
                 /\ errorMessage' = SeatsMessage(event.availableSeats)
                 /\ UNCHANGED requests
            ELSE /\ requests' = Append(requests, NewRequest(event, form, session))
                 /\ UNCHANGED <<bookingStatus, errorMessage>>
    /\ UNCHANGED <<open, event, form, timers, view, session>>

\* A re-render caused by a change of the mutation state.
Render ==
    /\ view # RenderView(event, form, requests)
    /\ view' = RenderView(event, form, requests)
    /\ lastOp' = "other"
    /\ UNCHANGED <<open, event, bookingStatus, errorMessage, form, requests,
                   timers, session>>

\* The await returns: setBookingStatus("success"), confetti, setTimeout.
Resolve(i) ==
    /\ requests[i].state = "pending"
    /\ requests' = [requests EXCEPT ![i].state = "resolved",
                                    ![i].calls = Append(@, "confetti")]
    /\ bookingStatus' = "success"
    /\ timers' = timers \cup {i}
    /\ lastOp' = "other"
    /\ UNCHANGED <<open, event, errorMessage, form, view, session>>

\* The await throws: the catch block.
Reject(i, err) ==
    /\ requests[i].state = "pending"
    /\ requests' = [requests EXCEPT ![i].state = "rejected", ![i].error = err.message]
    /\ bookingStatus' = "error"
    /\ errorMessage' = FailureMessage(err)
    /\ lastOp' = "other"
    /\ UNCHANGED <<open, event, form, timers, view, session>>

\* The timer callback with its two calls in the other order.
TimeoutSuccessFirst(i) ==
    /\ i \in timers
    /\ timers' = timers \ {i}
    /\ requests' = [requests EXCEPT
                       ![i].calls = @ \o <<"onSuccess", "onOpenChange(false)">>]
    /\ open' = FALSE
    /\ lastOp' = "other"
    /\ UNCHANGED <<event, bookingStatus, errorMessage, form, view, session>>

\* The timer callback: onOpenChange(false); onSuccess().  The parent closes.
Timeout(i) ==
    /\ i \in timers
    /\ timers' = timers \ {i}
    /\ requests' = [requests EXCEPT
                       ![i].calls = @ \o <<"onOpenChange(false)", "onSuccess">>]
    /\ open' = FALSE
    /\ lastOp' = "other"
    /\ UNCHANGED <<event, bookingStatus, errorMessage, form, view, session>>

\* --------------------------------------------------------- useEvent (hook)
\* enabled: !!id
EnabledAlways(id) == TRUE
Enabled(id) == ~Falsy(id)

\* The query function starts: it throws without a request when the id is
\* absent, and otherwise issues GET /events/{id} and waits for the response.
RunQueryFn(id) ==
    IF Falsy(id)
    THEN /\ cache' = [cache EXCEPT ![id] =
                        [status |-> "error", fetchStatus |-> "idle",
                         error |-> EventIdRequired]]
         /\ UNCHANGED getCalls
    ELSE /\ Len(getCalls) < MaxFetches
         /\ getCalls' = Append(getCalls, id)
         /\ cache' = [cache EXCEPT ![id].fetchStatus = "fetching"]

\* A component renders useEvent(id).  The query runs by itself only when it
\* is enabled, has no data yet and is not already being fetched.
UseEvent(id) ==
    /\ hookId # id
    /\ hookId' = id
    /\ hookOp' = "useEvent"
    /\ IF Enabled(id) /\ cache[id].status # "success" /\ cache[id].fetchStatus = "idle"
       THEN RunQueryFn(id)
       ELSE UNCHANGED <<cache, getCalls>>

\* refetch() of the returned query result runs the query function whatever
\* the enabled option says.
Refetch ==
    /\ hookId \in Ids
    /\ cache[hookId].fetchStatus = "idle"
    /\ hookOp' = "refetch"
    /\ RunQueryFn(hookId)
    /\ UNCHANGED hookId

\* return response.data
GetResolve(id) ==
    /\ cache[id].fetchStatus = "fetching"
    /\ cache' = [cache EXCEPT ![id] =
                   [status |-> "success", fetchStatus |-> "idle", error |-> ""]]
    /\ hookOp' = "response"
    /\ UNCHANGED <<hookId, getCalls>>

\* apiClient.get rejects
GetReject(id) ==
    /\ cache[id].fetchStatus = "fetching"
    /\ cache' = [cache EXCEPT ![id] =
                   [status |-> "error", fetchStatus |-> "idle", error |-> RequestFailed]]
    /\ hookOp' = "response"
    /\ UNCHANGED <<hookId, getCalls>>

NextHook ==
    \/ (\E id \in Ids : UseEvent(id)) /\ UNCHANGED dialogVars
    \/ Refetch /\ UNCHANGED dialogVars
    \/ (\E id \in Ids : GetResolve(id)) /\ UNCHANGED dialogVars
    \/ (\E id \in Ids : GetReject(id)) /\ UNCHANGED dialogVars

SpecHook == Init /\ [][NextHook]_vars

Next ==
    \/ (\E e \in Events : OpenDialog(e)) /\ UNCHANGED hookVars
    \/ DialogDismiss /\ UNCHANGED hookVars
    \/ CancelClick /\ UNCHANGED hookVars
    \/ SetName /\ UNCHANGED hookVars
    \/ SetEmail /\ UNCHANGED hookVars
    \/ SetMobile /\ UNCHANGED hookVars
    \/ SetQuantity /\ UNCHANGED hookVars
    \/ Submit /\ UNCHANGED hookVars
    \/ Render /\ UNCHANGED hookVars
    \/ (\E i \in 1..Len(requests) : Resolve(i)) /\ UNCHANGED hookVars
    \/ (\E i \in 1..Len(requests), err \in Failures : Reject(i, err)) /\ UNCHANGED hookVars
    \/ (\E i \in timers : Timeout(i)) /\ UNCHANGED hookVars

Spec == Init /\ [][Next]_vars

TypeOK ==
    /\ open \in BOOLEAN
    /\ bookingStatus \in {"idle", "success", "error"}
    /\ Len(requests) <= MaxRequests



\* ================================================================ properties
\* The validation rules as the specification states them.
PassesRules(d) ==
    /\ Len(d.name) >= 2
    /\ EmailValid(d.email)
    /\ Len(d.mobile) >= 10
    /\ ~IsNaN(d.quantity) /\ d.quantity >= 1

Completes(i, outcome) ==
    /\ i \in 1..Len(requests)
    /\ requests[i].state = "pending"
    /\ requests'[i].state = outcome

\* Where in the calls made for request i the call `what` stands.
Positions(what, i) ==
    {k \in 1..Len(requests[i].calls) : requests[i].calls[k] = what}

\* C1: a submission that passes field validation with a quantity q above the
\* event's available seats a issues no create-booking request, sets the status
\* to error and shows a message stating "Only {a} seats available."
C1_SeatGuard ==
    [][ (lastOp' = "submit" /\ PassesRules(form) /\ form.quantity > event.availableSeats)
          => /\ requests' = requests
             /\ bookingStatus' = "error"
             /\ Len(errorMessage') >= 3
             /\ SubSeq(errorMessage', 1, 3) =
                  <<"Only ", ToString(event.availableSeats), " seats available.">> ]_vars

C1_Witness ==
    /\ lastOp = "submit"
    /\ PassesRules(form)
    /\ form.quantity > event.availableSeats
    /\ bookingStatus = "error"
    /\ requests = << >>

\* C2: at most one create-booking request is in flight at any time.
C2_AtMostOneInFlight == Cardinality(InFlight) <= 1

\* C3: every closed-to-open transition resets status to idle, the error message
\* to empty and quantity to 1, and the status then stays idle until a
\* submission is made in the new open session.
C3_ResetHoldsUntilSubmit ==
    [][ /\ (~open /\ open') =>
             (bookingStatus' = "idle" /\ errorMessage' = Empty /\ form'.quantity = 1)
        /\ (open' /\ bookingStatus = "idle" /\ bookingStatus' # "idle") =>
             \/ lastOp' = "submit"
             \/ \E i \in 1..Len(requests) :
                   /\ requests[i].session = session
                   /\ Completes(i, "resolved") \/ Completes(i, "rejected") ]_vars

\* C4: each successful request sets the status to success and fires the
\* celebration once; its timer later asks the dialog to close and only then
\* runs onSuccess; onSuccess runs at most once per successful request.
C4_CallsInOrder ==
    \A i \in 1..Len(requests) :
      IF requests[i].state = "resolved"
      THEN /\ Cardinality(Positions("confetti", i)) = 1
           /\ IF i \in timers
              THEN Positions("onOpenChange(false)", i) = {} /\ Positions("onSuccess", i) = {}
              ELSE /\ Cardinality(Positions("onOpenChange(false)", i)) = 1
                   /\ Cardinality(Positions("onSuccess", i)) = 1
                   /\ \A c \in Positions("confetti", i), k \in Positions("onOpenChange(false)", i) :
                        c < k /\ Positions("onSuccess", i) = {k + 1}
      ELSE /\ i \notin timers
           /\ Positions("confetti", i) = {}
           /\ Positions("onOpenChange(false)", i) = {}
           /\ Positions("onSuccess", i) = {}

C4_SuccessSequence ==
    [][ /\ \A i \in 1..Len(requests) :
             Completes(i, "resolved") =>
               /\ bookingStatus' = "success"
               /\ requests'[i].calls = <<"confetti">>
               /\ i \in timers'
        /\ C4_CallsInOrder' ]_vars

C4_Witness ==
    \E i \in 1..Len(requests) :
        /\ requests[i].state = "resolved"
        /\ i \notin timers
        /\ Positions("onSuccess", i) # {}
        /\ ~open

RequestData(r) ==
    [name |-> r.name, email |-> r.email, mobile |-> r.mobile, quantity |-> r.quantity]

\* C6: every request issued carries the form values of the submission, and
\* these satisfy all validation rules; a submission in which a field fails its
\* rule issues no request and leaves the status unchanged.
C6_OnlyValidRequests ==
    [][ /\ Len(requests') >= Len(requests)
        /\ \A i \in 1..Len(requests) : RequestData(requests'[i]) = RequestData(requests[i])
        /\ Len(requests') > Len(requests) =>
             /\ lastOp' = "submit"
             /\ Len(requests') = Len(requests) + 1
             /\ RequestData(requests'[Len(requests')]) = form
             /\ requests'[Len(requests')].eventId = event.id
             /\ PassesRules(form)
        /\ (lastOp' = "submit" /\ ~PassesRules(form)) =>
             (requests' = requests /\ bookingStatus' = bookingStatus) ]_vars

C6_Witness ==
    /\ Len(requests) >= 1
    /\ lastOp = "submit"
    /\ ~PassesRules(form)
    /\ Len(form.mobile) < 10

\* JavaScript's p * q
JsTimes(p, q) == IF IsNaN(p) \/ IsNaN(q) THEN NaN ELSE p * q

\* C8: for every unit price p and every value q of the quantity field, the
\* displayed total is p x q.
C8_TotalIsPriceTimesQuantity ==
    (open /\ event # NoEvent) =>
        view.totalText = "$" \o ToFixed2(JsTimes(event.price, form.quantity))

\* The request was issued in an open session that has since been closed and
\* followed by a new one.
Stale(i) == requests[i].session # session

\* C9: the completion of a request that was in flight when the dialog was
\* closed, or closed and reopened, changes neither the status nor the error
\* message, and its timer neither closes the dialog nor fires onSuccess.
C9_StaleCompletionIsNoOp ==
    [][ /\ \A i \in 1..Len(requests) :
             (Stale(i) /\ (Completes(i, "resolved") \/ Completes(i, "rejected")))
               => (bookingStatus' = bookingStatus /\ errorMessage' = errorMessage)
        /\ \A i \in timers :
             (Stale(i) /\ i \notin timers')
               => (open' = open /\ requests' = requests) ]_vars

AllowedStep(a, b) ==
    \/ a = b
    \/ a = "idle" /\ b \in {"success", "error"}
    \/ a = "error" /\ b = "success"
    \/ a \in {"success", "error"} /\ b = "idle" /\ ~open /\ open'

\* C10: the status changes only idle -> success, idle -> error,
\* error -> success, error -> error, and success/error -> idle on an open
\* transition; no submission takes it from success to error or to success again.
C10_OnlyListedTransitions ==
    [][ /\ AllowedStep(bookingStatus, bookingStatus')
        /\ bookingStatus = "success" =>
             \A i \in 1..Len(requests) : ~Completes(i, "resolved") ]_vars

\* C7 as stated: the hook called with an absent identifier issues no network
\* call and at once yields the failure "Event ID is required".
C7_AbsentIdFails ==
    /\ \A k \in 1..Len(getCalls) : ~Falsy(getCalls[k])
    /\ (hookId \in Ids /\ Falsy(hookId)) =>
          (cache[hookId].status = "error" /\ cache[hookId].error = "Event ID is required")

\* C7 amended: the hook called with an absent identifier issues no network
\* call and leaves its query disabled, that is pending and idle with no error;
\* the failure "Event ID is required" appears only when the query function is
\* run explicitly through refetch, still without a network call.
C7_AbsentIdStaysDisabled ==
    [][ /\ \A k \in 1..Len(getCalls') : ~Falsy(getCalls'[k])
        /\ (hookOp' = "useEvent" /\ Falsy(hookId')) =>
              (cache' = cache /\ getCalls' = getCalls)
        /\ \A id \in Ids :
              (Falsy(id) /\ cache'[id] # cache[id]) =>
                 /\ hookOp' = "refetch"
                 /\ hookId = id
                 /\ cache'[id] = [status |-> "error", fetchStatus |-> "idle",
                                  error |-> "Event ID is required"]
                 /\ getCalls' = getCalls ]_vars

C7_Witness ==
    /\ hookOp = "useEvent"
    /\ hookId = Undefined
    /\ cache[Undefined] = [status |-> "pending", fetchStatus |-> "idle", error |-> ""]
    /\ cache[""].status = "error"

====
